---------------------------- MODULE Spec2Model ----------------------------
(***************************************************************************)
(* A model of pagerank.py: the transition model, the sampling estimator    *)
(* (sample_pagerank) and the iterative estimator (iterate_pagerank).       *)
(*                                                                         *)
(* Numbers.  Python floats are modelled as fixed-point numbers: the real x *)
(* is the integer round(x * SCALE), and every division rounds to nearest,  *)
(* as a float division does (at a coarser resolution).  A damping factor   *)
(* is kept in hundredths (85 is 0.85) so that products stay in range.      *)
(*                                                                         *)
(* Graphs.  A corpus is what crawl() returns: a dict page -> set of pages, *)
(* links only to pages of the corpus, no self-links.  Pages are 1..N and   *)
(* the dict's iteration order (insertion order) is 1, 2, ..., N.           *)
(***************************************************************************)
EXTENDS Integers, Sequences, FiniteSets

\* ----------------------------------------------------------------- bounds
\* Largest number of pages of a corpus.
MaxPages == 3
\* Largest sample count n passed to sample_pagerank.
MaxSamples == 4
\* Fixed-point resolution: 1.0 is SCALE units.
SCALE == 1000000

\* -------------------------------------------------------------- constants
\* DAMPING = 0.85, in hundredths.
DAMPING == 85
\* threshold = 0.0005, in fixed-point units.
threshold == (5 * SCALE) \div 10000

\* ------------------------------------------------------------- arithmetic
\* a / b for a >= 0, b > 0, rounded to nearest.
Div(a, b) == (2 * a + b) \div (2 * b)

\* abs(x)
Abs(x) == IF x < 0 THEN -x ELSE x

\* damping_factor as a fixed-point number.
Damp(d) == Div(d * SCALE, 100)

\* 1 - damping_factor
OneMinus(d) == SCALE - Damp(d)

\* damping_factor * x
DampTimes(d, x) == Div(d * x, 100)

\* sum of f over the set S of keys
RECURSIVE SumOver(_, _)
SumOver(f, S) ==
    IF S = {} THEN 0
    ELSE LET k == CHOOSE k \in S : TRUE IN f[k] + SumOver(f, S \ {k})

\* sum(d.values())
SumValues(d) == SumOver(d, DOMAIN d)

\* ---------------------------------------------------------------- corpora
\* The corpora crawl() can return with at most m pages (m = 0: no .html file).
Corpora(m) ==
    UNION { { c \in [1..k -> SUBSET (1..k)] : \A p \in 1..k : p \notin c[p] }
            : k \in 0..m }

\* Damping factors tried, in hundredths; [0, 1].
Dampings == {0, 50, DAMPING, 95, 100}

\* Damping factors below 1.
DampingsBelowOne == { d \in Dampings : d < 100 }

\* No value (Python: the name is not bound yet).
None == <<>>

VARIABLES
    corpus,                \* the corpus passed to the function
    damping_factor,        \* the damping factor passed, in hundredths
    n,                     \* sample_pagerank's n
    pc,                    \* position in the function being run
    page,                  \* transition_model's page / sample_pagerank's current page
    i,                     \* sample_pagerank's loop index
    distribution,          \* sample_pagerank's running average
    current_distribution,  \* sample_pagerank's current_distribution
    weights,               \* the weights last handed to random.choices
    ranks,                 \* iterate_pagerank's ranks
    count,                 \* iterate_pagerank's count
    key,                   \* iterate_pagerank's position in `for key in corpus`
    prev,                  \* history: ranks at the start of the current round
    deltas,                \* history: abs(ranks[key] - new) of this round's pages
    early,                 \* history: an earlier round had every change below threshold
    rounds,                \* history: number of completed rounds
    result                 \* the value returned

vars == << corpus, damping_factor, n, pc, page, i, distribution,
           current_distribution, weights, ranks, count, key, prev, deltas,
           early, rounds, result >>

\* ------------------------------------------------------- transition_model
\* transition_model with line 79 dividing by the number of pages instead of
\* the number of links.
transition_model_share_by_pages(c, p, d) ==
    LET num   == Len(c)
        links == c[p]
        base  == [q \in DOMAIN c |-> Div(OneMinus(d), num)]
    IN  IF links # {}
        THEN [q \in DOMAIN c |->
                IF q \in links THEN base[q] + Div(Damp(d), num)
                ELSE base[q]]
        ELSE [q \in DOMAIN c |-> Div(SCALE, num)]

\* transition_model(corpus, page, damping_factor)
transition_model(c, p, d) ==
    LET num   == Len(c)
        links == c[p]
        base  == [q \in DOMAIN c |-> Div(OneMinus(d), num)]
    IN  IF links # {}
        THEN [q \in DOMAIN c |->
                IF q \in links THEN base[q] + Div(Damp(d), Cardinality(links))
                ELSE base[q]]
        ELSE [q \in DOMAIN c |-> Div(SCALE, num)]

\* The state before a function is entered: nothing is bound but the arguments.
Unbound ==
    /\ page = 0 /\ i = 0
    /\ distribution = None /\ current_distribution = None /\ weights = None
    /\ ranks = None /\ count = 0 /\ key = 0 /\ prev = None /\ deltas = None
    /\ early = FALSE /\ rounds = 0
    /\ result = None

InitTransition ==
    /\ corpus \in Corpora(MaxPages)
    /\ damping_factor \in Dampings
    /\ n = 0
    /\ pc = "transition_model"
    /\ Unbound

\* A call transition_model(corpus, p, damping_factor) with p a key of corpus.
TransitionCall ==
    /\ pc = "transition_model"
    /\ \E p \in DOMAIN corpus :
         /\ page' = p
         /\ result' = transition_model(corpus, p, damping_factor)
    /\ pc' = "transition_returned"
    /\ UNCHANGED << corpus, damping_factor, n, i, distribution,
                    current_distribution, weights, ranks, count, key, prev,
                    deltas, early, rounds >>

NextTransition == TransitionCall

SpecTransition == InitTransition /\ [][NextTransition]_vars

\* -------------------------------------------------------- sample_pagerank
\* The incremental mean of line 106, for every page of the running average.
RunningAverage(k, old, cur) ==
    [p \in DOMAIN old |-> Div((k - 1) * old[p] + cur[p], k)]

\* The weights line 108 hands to random.choices: list(distribution.values()),
\* the running average just updated (cur is the transition distribution).
ChoiceWeights(dist, cur) == dist

\* The pages random.choices can return under the weights w.
Choosable(w) == { p \in DOMAIN w : w[p] > 0 }

InitSample ==
    /\ corpus \in Corpora(MaxPages)
    /\ damping_factor \in DampingsBelowOne
    /\ n \in -1..MaxSamples
    /\ pc = "sample_pagerank"
    /\ Unbound

\* Lines 97-101 on a corpus with pages: zero every page, pick the start page.
SampleStart ==
    /\ pc = "sample_pagerank"
    /\ Len(corpus) > 0
    /\ distribution' = [p \in DOMAIN corpus |-> 0]
    /\ page' \in DOMAIN corpus
    /\ i' = 1
    /\ pc' = "sample_loop"
    /\ UNCHANGED << corpus, damping_factor, n, current_distribution, weights,
                    ranks, count, key, prev, deltas, early, rounds, result >>

\* Lines 97-101 on the empty corpus: random.choice([]) raises IndexError.
SampleStartEmpty ==
    /\ pc = "sample_pagerank"
    /\ Len(corpus) = 0
    /\ distribution' = [p \in DOMAIN corpus |-> 0]
    /\ pc' = "IndexError"
    /\ UNCHANGED << corpus, damping_factor, n, page, i, current_distribution,
                    weights, ranks, count, key, prev, deltas, early, rounds,
                    result >>

\* Lines 103-108: one iteration of `for i in range(1, n)`.
SampleStep ==
    /\ pc = "sample_loop"
    /\ i < n
    /\ LET cur == transition_model(corpus, page, damping_factor)
           avg == RunningAverage(i, distribution, cur)
           w   == ChoiceWeights(avg, cur)
       IN  /\ current_distribution' = cur
           /\ distribution' = avg
           /\ weights' = w
           /\ page' \in Choosable(w)
    /\ i' = i + 1
    /\ UNCHANGED << corpus, damping_factor, n, pc, ranks, count, key, prev,
                    deltas, early, rounds, result >>

\* Lines 103 and 110: range(1, n) is exhausted, return distribution.
SampleReturn ==
    /\ pc = "sample_loop"
    /\ i >= n
    /\ result' = distribution
    /\ pc' = "sample_returned"
    /\ UNCHANGED << corpus, damping_factor, n, page, i, distribution,
                    current_distribution, weights, ranks, count, key, prev,
                    deltas, early, rounds >>

NextSample ==
    \/ SampleStart
    \/ SampleStartEmpty
    \/ SampleStep
    \/ SampleReturn

SpecSample == InitSample /\ [][NextSample]_vars

\* ------------------------------------------------------- iterate_pagerank
\* Saturation of the history counter of completed rounds.
RoundCap == 3

\* NewRank without the random-jump term (1 - d) / N of line 133.
NewRank_no_jump(c, r, k, d) ==
    LET from  == { p \in DOMAIN c : k \in c[p] }
        share == [p \in DOMAIN c |-> IF p \in from THEN Div(r[p], Cardinality(c[p])) ELSE 0]
    IN  DampTimes(d, SumOver(share, from))

\* Lines 133-141: the new rank of page k from the ranks r.
NewRank(c, r, k, d) ==
    LET num   == Len(c)
        from  == { p \in DOMAIN c : k \in c[p] }
        share == [p \in DOMAIN c |-> IF p \in from THEN Div(r[p], Cardinality(c[p])) ELSE 0]
        sigma == SumOver(share, from)
    IN  Div(OneMinus(d), num) + DampTimes(d, sigma)

\* ReadRanks of a double-buffered round: the ranks of the round's start.
ReadRanks_snapshot(r, pv) == pv

\* The ranks line 138 reads: the dict being updated (r), not the ranks as
\* they stood at the start of the round (pv).
ReadRanks(r, pv) == r

\* Line 142: abs(ranks[key] - new) < threshold
Below(old, new) == Abs(old - new) < threshold

\* Line 145 accepting a round in which one page did not converge.
Converged_but_one(cnt, c) == cnt >= Len(c) - 1

\* Line 145 with > for ==: never true.
Converged_never(cnt, c) == cnt > Len(c)

\* Line 145: count == N
Converged(cnt, c) == cnt = Len(c)

InitIterate ==
    /\ corpus \in Corpora(MaxPages)
    /\ damping_factor \in DampingsBelowOne
    /\ n = 0
    /\ pc = "iterate_pagerank"
    /\ Unbound

\* Lines 122-127: every page starts at 1 / N.
IterateStart ==
    /\ pc = "iterate_pagerank"
    /\ ranks' = [p \in DOMAIN corpus |-> Div(SCALE, Len(corpus))]
    /\ pc' = "while"
    /\ UNCHANGED << corpus, damping_factor, n, page, i, distribution,
                    current_distribution, weights, count, key, prev, deltas,
                    early, rounds, result >>

\* Lines 130-132: a round begins, count = 0, the for loop is at its first key.
RoundStart ==
    /\ pc = "while"
    /\ count' = 0
    /\ key' = 1
    /\ prev' = ranks
    /\ deltas' = << >>
    /\ pc' = "for"
    /\ UNCHANGED << corpus, damping_factor, n, page, i, distribution,
                    current_distribution, weights, ranks, early, rounds,
                    result >>

\* Lines 132-144: the body of `for key in corpus` for one key.
PageUpdate ==
    /\ pc = "for"
    /\ key <= Len(corpus)
    /\ LET new == NewRank(corpus, ReadRanks(ranks, prev), key, damping_factor)
       IN  /\ count' = IF Below(ranks[key], new) THEN count + 1 ELSE count
           /\ deltas' = Append(deltas, Abs(ranks[key] - new))
           /\ ranks' = [ranks EXCEPT ![key] = new]
    /\ key' = key + 1
    /\ UNCHANGED << corpus, damping_factor, n, pc, page, i, distribution,
                    current_distribution, weights, prev, early, rounds,
                    result >>

\* Every page's change in the round just completed was below the threshold.
AllBelow == \A k \in 1..Len(deltas) : deltas[k] < threshold

\* Lines 145 and 130: count != N, the while loop goes round again.
RoundContinue ==
    /\ pc = "for"
    /\ key > Len(corpus)
    /\ ~Converged(count, corpus)
    /\ early' = (early \/ AllBelow)
    /\ rounds' = IF rounds < RoundCap THEN rounds + 1 ELSE rounds
    /\ pc' = "while"
    /\ UNCHANGED << corpus, damping_factor, n, page, i, distribution,
                    current_distribution, weights, ranks, count, key, prev,
                    deltas, result >>

\* Lines 145-147: count == N, break and return ranks.
IterateReturn ==
    /\ pc = "for"
    /\ key > Len(corpus)
    /\ Converged(count, corpus)
    /\ rounds' = IF rounds < RoundCap THEN rounds + 1 ELSE rounds
    /\ result' = ranks
    /\ pc' = "iterate_returned"
    /\ UNCHANGED << corpus, damping_factor, n, page, i, distribution,
                    current_distribution, weights, ranks, count, key, prev,
                    deltas, early >>

NextIterate ==
    \/ IterateStart
    \/ RoundStart
    \/ PageUpdate
    \/ RoundContinue
    \/ IterateReturn

SpecIterate == InitIterate /\ [][NextIterate]_vars

\* The interpreter runs the function to its end: no step is postponed forever.
FairSpecIterate == SpecIterate /\ WF_vars(NextIterate)

\* ================================================================= claims

\* ----------------------------------------------------------------- C1
\* The mass the claim gives page q in transition_model(c, p, d).
ClaimedMass(c, p, d, q) ==
    LET num == Len(c)
        L   == c[p]
    IN  CASE L = {}               -> Div(SCALE, num)
          [] L # {} /\ q \in L    -> Div(OneMinus(d), num) + Div(Damp(d), Cardinality(L))
          [] L # {} /\ q \notin L -> Div(OneMinus(d), num)

\* C1: for every non-empty corpus, page p of it and damping in [0, 1],
\* transition_model gives every page q of the corpus (and no other key) the
\* mass (1-d)/N + d/|L| when q is linked from p, (1-d)/N when p has links and
\* q is not one of them, and 1/N when p has no links.
C1_TransitionMass ==
    pc = "transition_returned" =>
        /\ DOMAIN result = DOMAIN corpus
        /\ \A q \in DOMAIN corpus :
             result[q] = ClaimedMass(corpus, page, damping_factor, q)

\* A call at damping 0.85 on a page that links to some pages and not to others.
C1_Witness ==
    /\ pc = "transition_returned"
    /\ damping_factor = DAMPING
    /\ corpus[page] # {}
    /\ \E q \in DOMAIN corpus : q \notin corpus[page] /\ q # page
    /\ \E q \in corpus[page] : result[q] > result[page]

\* ----------------------------------------------------------------- C2
\* C2: in every step of the walk the next page is drawn with the weights of
\* the transition distribution just computed for the current page, so a page
\* can be drawn only if that distribution gives it mass.
C2_WeightsAreTransition ==
    (pc = "sample_loop" /\ i > 1) => weights = current_distribution

\* ----------------------------------------------------------------- C3
\* Tolerance 0.01 on the sum of a sampled distribution.
SampleTolerance == SCALE \div 100

\* C3: for every non-empty corpus, damping in [0, 1) and n >= 1, the mapping
\* sample_pagerank returns has one entry per page and its values sum to 1
\* within 0.01.
C3_SampleSumsToOne ==
    (pc = "sample_returned" /\ n >= 1) =>
        /\ DOMAIN result = DOMAIN corpus
        /\ Abs(SumValues(result) - SCALE) <= SampleTolerance

\* ----------------------------------------------------------------- C6
\* C6: sample_pagerank called with n < 1 fails and returns no mapping.
C6_NoReturnBelowOneSample ==
    n < 1 => pc # "sample_returned"

\* ----------------------------------------------------------------- C7
\* C7: an estimator called with an empty corpus fails before any computation
\* and never returns a result, not even an empty mapping.
C7_NoReturnOnEmptyCorpus ==
    Len(corpus) = 0 => pc \notin {"sample_returned", "iterate_returned"}

\* ----------------------------------------------------------------- C4
\* The pages reached from page p in at most k steps along the links of c.
RECURSIVE Reach(_, _, _)
Reach(c, p, k) ==
    IF k = 0 THEN {p}
    ELSE LET R == Reach(c, p, k - 1) IN R \cup UNION { c[q] : q \in R }

\* c is a single directed cycle through all of its pages (at least two).
IsCycle(c) ==
    /\ Len(c) >= 2
    /\ \A p \in DOMAIN c : Cardinality(c[p]) = 1
    /\ \A p \in DOMAIN c : Reach(c, p, Len(c)) = DOMAIN c

\* C4: on a corpus that is one directed cycle through its N pages, at
\* damping 0.85, iterate_pagerank returns a rank within 0.0005 of 1/N for
\* every page.
C4_CycleIsUniform ==
    (pc = "iterate_returned" /\ IsCycle(corpus) /\ damping_factor = DAMPING) =>
        /\ DOMAIN result = DOMAIN corpus
        /\ \A p \in DOMAIN corpus :
             Abs(result[p] - Div(SCALE, Len(corpus))) < threshold

\* iterate_pagerank has returned on the three-page cycle 1 -> 2 -> 3 -> 1.
C4_Witness ==
    /\ pc = "iterate_returned"
    /\ damping_factor = DAMPING
    /\ Len(corpus) = MaxPages
    /\ IsCycle(corpus)
    /\ \A p \in DOMAIN corpus : corpus[p] = {(p % Len(corpus)) + 1}

\* ----------------------------------------------------------------- C5
\* Tolerance on the sum of the returned ranks: 0.01, far above the rounding of
\* the arithmetic and the slack the convergence threshold leaves.
SumTolerance == SCALE \div 100

\* C5: for every non-empty corpus, dangling pages or not, and every damping
\* below 1, the ranks iterate_pagerank returns sum to 1.
C5_RanksSumToOne ==
    (pc = "iterate_returned" /\ Len(corpus) > 0) =>
        Abs(SumValues(result) - SCALE) <= SumTolerance

InPlaceRank(k) ==
    LET mixed == [p \in DOMAIN corpus |-> IF p < k THEN ranks[p] ELSE prev[p]]
    IN  NewRank(corpus, mixed, k, damping_factor)

\* The rank a snapshot-per-round (double-buffered) round gives page k.
SnapshotRank(k) == NewRank(corpus, prev, k, damping_factor)

\* C9: within a round the ranks are updated in place in iteration order: the
\* new rank of a page is computed from the already-updated ranks of the pages
\* processed earlier in the round and the previous round's ranks of the rest.
C9_InPlaceUpdate ==
    pc = "for" =>
        /\ \A k \in 1..(key - 1) : ranks[k] = InPlaceRank(k)
        /\ \A k \in key..Len(corpus) : ranks[k] = prev[k]

\* A page has been updated to a rank that differs from the one a
\* snapshot-per-round model gives it.
C9_Witness ==
    /\ pc = "for"
    /\ \E k \in 1..(key - 1) :
         /\ ranks[k] = InPlaceRank(k)
         /\ ranks[k] # SnapshotRank(k)

\* ---------------------------------------------------------------- C10
\* C10: for every non-empty corpus and damping below 1 iterate_pagerank
\* terminates: a round in which every page changes by less than 0.0005 is
\* reached and the function returns.
C10_Terminates == <>(pc = "iterate_returned")

\* A return at damping 0.85 that took several rounds.
C10_Witness ==
    /\ pc = "iterate_returned"
    /\ Len(corpus) > 0
    /\ damping_factor = DAMPING
    /\ rounds >= RoundCap

=============================================================================
